---------------------------- MODULE Spec2Model ----------------------------
(***************************************************************************)
(* A model of bnet: the Network class (node/id lookup tables, validated    *)
(* edge insertion), the random topology generators random_network and      *)
(* randomDAG, the CPT estimator cpt() and the queries Network.cpt and      *)
(* Network.jointprob.                                                      *)
(*                                                                         *)
(* Python lists are sequences (1-based); list position k of               *)
(* enumerate(nodes, nexti) carries the id nexti + k - 1.  Dictionaries are *)
(* functions; a set of pairs <<u, v>> is the edge set of the DiGraph.      *)
(***************************************************************************)
EXTENDS Integers, Sequences, FiniteSets, TLC

(***************************************************************************)
(* Bounds of the model.                                                    *)
(***************************************************************************)
\* longest node list handed to Network(nodes) / add_nodes_from
MaxBulk == 2
\* longest edge list handed to add_edges_from
MaxEdgeList == 2
\* number of ids handed out on one network before the model stops registering
MaxIssued == 4
\* largest max_attempts handed to random_network
MaxAttempts == 2
\* density halvings the model tells apart (further halvings allow the same draws)
MaxHalvings == 2
\* most rows of an observation matrix handed to cpt()
MaxRows == 2
\* most rows of a state matrix handed to jointprob()
MaxJointRows == 1

\* the node keys the callers draw from
NodeNames == {"a", "b"}

VARIABLES
    \* ---- a Network instance (src/network.py, class Network)
    nodeset,    \* self.nodes(): the DiGraph's node set
    inlut,      \* self.graph['inlut']: id -> node
    nilut,      \* self.graph['nilut']: node -> id
    edgeset,    \* self.edges(): the DiGraph's edge set
    call,       \* the last method called on the network (add_edge: with u and v)
    err,        \* what that call raised: "none", "NodeException", "KeyError"
    missing,    \* the node named by the NodeException ("" when none)
    issued,     \* history: the ids handed out so far, in hand-out order
    \* ---- a run of random_network or randomDAG on that network
    pc,             \* where the run stands
    gen_nodes,      \* nodes: the node list given (randomDAG shuffles it)
    required_edges, \* required_edges (random_network), white_edges (randomDAG)
    prohibited_edges,
    max_attempts,
    halvings,       \* _randomize's density is (1.0 / n_nodes) / 2^halvings
    attempt,        \* the loop variable of _randomize
    adjmat,         \* the adjacency matrix of the last attempt (non-zero cells)
    white_edges,    \* randomDAG's white_edges, a list of pairs
    pairk,          \* randomDAG: position in itertools.combinations(nodes, 2)
    \* ---- the node attributes and the CPT estimation and queries on them
    nstates,        \* net.node[n]['nstates']
    node_attr,      \* net.node[n]: which of 'cpt', 'numer', 'denom' it holds, and they
    estimated,      \* the nodes the last cpt() call estimated
    qres,           \* what the last Network.cpt(node, state) returned or raised
    jpres           \* what the last Network.jointprob(states) returned or raised

netVars == <<nodeset, inlut, nilut, edgeset, call, err, missing, issued>>

genVars == <<pc, gen_nodes, required_edges, prohibited_edges, max_attempts,
             halvings, attempt, adjmat>>

dagVars == <<white_edges, pairk>>

cptVars == <<nstates, node_attr, estimated, qres, jpres>>

vars == <<nodeset, inlut, nilut, edgeset, call, err, missing, issued,
          pc, gen_nodes, required_edges, prohibited_edges, max_attempts,
          halvings, attempt, adjmat, white_edges, pairk,
          nstates, node_attr, estimated, qres, jpres>>

(***************************************************************************)
(* Helpers.                                                                *)
(***************************************************************************)
Range(s) == {s[k] : k \in DOMAIN s}

SetMax(S) == CHOOSE x \in S : \A y \in S : y <= x

SeqsUpTo(S, n) == UNION {[1..k -> S] : k \in 0..n}

EmptyFun == [x \in {} |-> 0]

NodeLists == SeqsUpTo(NodeNames, MaxBulk)

Pairs == NodeNames \X NodeNames

EdgeLists == SeqsUpTo(Pairs, MaxEdgeList)

\* an adjacency matrix of dimension d, as the set of its non-zero cells (j, k)
Matrices(d) == SUBSET ((0..(d - 1)) \X (0..(d - 1)))

(***************************************************************************)
(* Network._next_lut: max(lut) + 1, and 0 when the table is empty          *)
(* (max of an empty dict raises ValueError).                               *)
(***************************************************************************)
next_lut(lut) == IF DOMAIN lut = {} THEN 0 ELSE SetMax(DOMAIN lut) + 1

(***************************************************************************)
(* Network.add_nodes_from: the nodes join the DiGraph's node set; inlut is *)
(* REPLACED by the enumeration of the new nodes from the next free id, and *)
(* nilut is rebuilt from it.  When a node occurs twice in the list, the    *)
(* dict comprehension keeps for it the id iterated last; the iteration     *)
(* order of a dict is not fixed by the language, so any of its ids.        *)
(***************************************************************************)
enumerate_lut(nodes, nexti) ==
    [i \in nexti..(nexti + Len(nodes) - 1) |-> nodes[i - nexti + 1]]

invert_lut(lut) ==
    {f \in [Range(lut) -> DOMAIN lut] : \A n \in Range(lut) : lut[f[n]] = n}

IdsOf(nodes, nexti) == [k \in 1..Len(nodes) |-> nexti + k - 1]

add_nodes_from(nodes) ==
    LET nexti == next_lut(inlut) IN
    /\ Len(issued) + Len(nodes) <= MaxIssued
    /\ nodeset' = nodeset \cup Range(nodes)
    /\ inlut' = enumerate_lut(nodes, nexti)
    /\ nilut' \in invert_lut(inlut')
    /\ issued' = issued \o IdsOf(nodes, nexti)
    /\ call' = [op |-> "add_nodes_from"]
    /\ err' = "none"
    /\ missing' = ""
    /\ UNCHANGED edgeset

(***************************************************************************)
(* Network.add_node: the node joins the node set and both tables are       *)
(* updated in place with the next free id.                                 *)
(***************************************************************************)
add_node(node) ==
    LET nexti == next_lut(inlut) IN
    /\ Len(issued) + 1 <= MaxIssued
    /\ nodeset' = nodeset \cup {node}
    /\ inlut' = [i \in DOMAIN inlut \cup {nexti} |->
                    IF i = nexti THEN node ELSE inlut[i]]
    /\ nilut' = [n \in DOMAIN nilut \cup {node} |->
                    IF n = node THEN nexti ELSE nilut[n]]
    /\ issued' = Append(issued, nexti)
    /\ call' = [op |-> "add_node"]
    /\ err' = "none"
    /\ missing' = ""
    /\ UNCHANGED edgeset

(***************************************************************************)
(* Network.add_edge: both endpoints must be in self.nodes(); otherwise     *)
(* NodeException names v when u exists and u when it does not.             *)
(***************************************************************************)
\* the node add_edge(u, v) complains about on node set ns ("" when none)
edge_missing(ns, u, v) ==
    IF u \in ns /\ v \in ns THEN ""
    ELSE IF u \in ns THEN v ELSE u

\* add_edge without the override's check: DiGraph.add_edge, which creates the
\* endpoints it does not know
add_edge_unchecked(u, v) ==
    /\ call' = [op |-> "add_edge", u |-> u, v |-> v]
    /\ edgeset' = edgeset \cup {<<u, v>>}
    /\ nodeset' = nodeset \cup {u, v}
    /\ err' = "none"
    /\ missing' = ""
    /\ UNCHANGED <<inlut, nilut, issued>>

add_edge(u, v) ==
    LET m == edge_missing(nodeset, u, v) IN
    /\ call' = [op |-> "add_edge", u |-> u, v |-> v]
    /\ IF m = ""
       THEN /\ edgeset' = edgeset \cup {<<u, v>>}
            /\ err' = "none"
       ELSE /\ edgeset' = edgeset
            /\ err' = "NodeException"
    /\ missing' = m
    /\ UNCHANGED <<nodeset, inlut, nilut, issued>>

(***************************************************************************)
(* Network.add_edges_from over a list of pairs: add_edge on each edge in   *)
(* turn; the first NodeException leaves the loop, and the edges inserted   *)
(* before it stay.                                                         *)
(***************************************************************************)
\* the position of the first edge of es that add_edge rejects (0 when none)
first_bad(ns, es) ==
    LET bad == {k \in 1..Len(es) : edge_missing(ns, es[k][1], es[k][2]) # ""}
    IN IF bad = {} THEN 0 ELSE CHOOSE k \in bad : \A l \in bad : k <= l

\* the edges the loop has inserted when it ends
edges_applied(ns, es) ==
    LET b == first_bad(ns, es)
        n == IF b = 0 THEN Len(es) ELSE b - 1
    IN {es[k] : k \in 1..n}

add_edges_list(es) ==
    LET b == first_bad(nodeset, es) IN
    /\ edgeset' = edgeset \cup edges_applied(nodeset, es)
    /\ err' = IF b = 0 THEN "none" ELSE "NodeException"
    /\ missing' = IF b = 0 THEN ""
                  ELSE edge_missing(nodeset, es[b][1], es[b][2])

add_edges_from(es) ==
    /\ call' = [op |-> "add_edges_from"]
    /\ add_edges_list(es)
    /\ UNCHANGED <<nodeset, inlut, nilut, issued>>

(***************************************************************************)
(* Network._adjmat_to_edges and add_edges_from over an adjacency matrix:   *)
(* cell (j, k) becomes the edge (inlut[j], inlut[k]), columns outermost;   *)
(* a cell whose index has no entry in inlut raises KeyError while the list *)
(* is built, before any edge is inserted.                                  *)
(***************************************************************************)
adjmat_ok(lut, m) == \A c \in m : c[1] \in DOMAIN lut /\ c[2] \in DOMAIN lut

\* the non-zero cells (j, k) of m in the comprehension's order: k outermost
cell_order(d, m) ==
    LET keys == {c[2] * d + c[1] : c \in m}
    IN [i \in 1..Cardinality(keys) |->
           CHOOSE x \in keys : Cardinality({y \in keys : y < x}) = i - 1]

adjmat_to_edges(lut, d, m) ==
    LET ord == cell_order(d, m)
    IN [i \in DOMAIN ord |-> <<lut[ord[i] % d], lut[ord[i] \div d]>>]

add_edges_from_adjmat(d, m) ==
    /\ call' = [op |-> "add_edges_from_adjmat"]
    /\ IF adjmat_ok(inlut, m)
       THEN add_edges_list(adjmat_to_edges(inlut, d, m))
       ELSE /\ edgeset' = edgeset
            /\ err' = "KeyError"
            /\ missing' = ""
    /\ UNCHANGED <<nodeset, inlut, nilut, issued>>

(***************************************************************************)
(* Network.clear: removes every edge, keeps the nodes and the tables.      *)
(***************************************************************************)
clear ==
    /\ edgeset' = {}
    /\ call' = [op |-> "clear"]
    /\ err' = "none"
    /\ missing' = ""
    /\ UNCHANGED <<nodeset, inlut, nilut, issued>>

(***************************************************************************)
(* Network.__init__(nodes): empty tables, then add_nodes_from(nodes).      *)
(***************************************************************************)
NetInit ==
    \E nodes \in NodeLists :
        /\ nodeset = Range(nodes)
        /\ inlut = enumerate_lut(nodes, 0)
        /\ nilut \in invert_lut(inlut)
        /\ edgeset = {}
        /\ call = [op |-> "init"]
        /\ err = "none"
        /\ missing = ""
        /\ issued = IdsOf(nodes, 0)

\* the methods of a network on which no generator runs
NetNext ==
    \/ \E nodes \in NodeLists : add_nodes_from(nodes) /\ UNCHANGED <<genVars, dagVars, cptVars>>
    \/ \E node \in NodeNames : add_node(node) /\ UNCHANGED <<genVars, dagVars, cptVars>>
    \/ \E u \in NodeNames, v \in NodeNames :
          add_edge(u, v) /\ UNCHANGED <<genVars, dagVars, cptVars>>
    \/ \E es \in EdgeLists : add_edges_from(es) /\ UNCHANGED <<genVars, dagVars, cptVars>>
    \/ \E d \in 0..Cardinality(NodeNames) : \E m \in Matrices(d) :
          add_edges_from_adjmat(d, m) /\ UNCHANGED <<genVars, dagVars, cptVars>>
    \/ clear /\ UNCHANGED <<genVars, dagVars, cptVars>>

\* probabilities: the float z / y as the pair of its terms, and
\* N.finfo(float).tiny, the smallest positive normal float
Frac(z, y) == <<"frac", z, y>>

Tiny == <<"tiny", 0, 0>>

Zero == Frac(0, 1)

NoResult == [kind |-> "none", val |-> Zero]

NoJoint == [kind |-> "none", rows |-> <<>>]

\* no node carries attributes and nothing has been queried
CptIdle ==
    /\ nstates = EmptyFun
    /\ node_attr = EmptyFun
    /\ estimated = {}
    /\ qres = NoResult
    /\ jpres = NoJoint

\* no generator runs on the network
GenIdle ==
    /\ pc = "idle"
    /\ gen_nodes = <<>>
    /\ required_edges = {}
    /\ prohibited_edges = {}
    /\ max_attempts = 0
    /\ halvings = 0
    /\ attempt = 0
    /\ adjmat = {}
    /\ white_edges = <<>>
    /\ pairk = 0

Init == NetInit /\ GenIdle /\ CptIdle

Next == NetNext

Spec == Init /\ [][Next]_vars

(***************************************************************************)
(* Network.is_acyclic: nx.is_directed_acyclic_graph, a topological sort    *)
(* that fails on a cycle (a self-loop is a cycle).  Here: peel off the     *)
(* nodes without a predecessor among the remaining ones.                   *)
(***************************************************************************)
RECURSIVE peel(_, _)
peel(ns, es) ==
    IF ns = {} THEN TRUE
    ELSE LET roots == {n \in ns : ~ \E m \in ns : <<m, n>> \in es}
         IN IF roots = {} THEN FALSE ELSE peel(ns \ roots, es)

is_acyclic(ns, es) == peel(ns, es)

(***************************************************************************)
(* random_network(nodes, required_edges, prohibited_edges, max_attempts).  *)
(*                                                                         *)
(* The recursion of _randomize is a tail call: pc = "enter" stands at the  *)
(* head of a call of _randomize, pc = "attempt" at the head of its loop    *)
(* body.  numpy's rand() draws each cell from [0, 1) and the cell is set   *)
(* when the draw is >= 1 - density: with density 1 (one node, no halving)  *)
(* every cell is set, with a density in (0, 1) any set of cells can come   *)
(* out.  (Once 1.0 - density rounds to 1.0 no cell can be set any more;    *)
(* the model keeps every draw possible there, which only adds behaviours.) *)
(***************************************************************************)
DistinctLists == {l \in SeqsUpTo(NodeNames, Cardinality(NodeNames)) :
                    \A i \in DOMAIN l : \A j \in DOMAIN l : l[i] = l[j] => i = j}

Cells(n) == (0..(n - 1)) \X (0..(n - 1))

\* the matrices rand() and the two threshold assignments can produce
Draws(n, h) == IF n = 1 /\ h = 0 THEN {Cells(n)} ELSE SUBSET Cells(n)

\* adjmat[nodes[src], nodes[dest]] for each listed edge; nodes is nilut
edge_cells(lut, es) == {<<lut[e[1]], lut[e[2]]>> : e \in es}

diagonal(n) == {<<i, i>> : i \in 0..(n - 1)}

\* required edges set to 1, then prohibited edges set to 0, then the diagonal
force_edges_required_last(n, draw) ==
    (((draw \ edge_cells(nilut, prohibited_edges))
        \cup edge_cells(nilut, required_edges)) \ diagonal(n))

force_edges(n, draw) ==
    (((draw \cup edge_cells(nilut, required_edges))
        \ edge_cells(nilut, prohibited_edges)) \ diagonal(n))

next_halvings(h) == IF h < MaxHalvings THEN h + 1 ELSE h

\* _randomize entered without net.clear()
randomize_enter_noclear ==
    /\ pc = "enter"
    /\ IF Cardinality(nodeset) = 0
       THEN /\ pc' = "raised"
            /\ err' = "ZeroDivisionError"
            /\ UNCHANGED <<halvings, attempt>>
       ELSE IF max_attempts <= 0
       THEN /\ pc' = "enter"
            /\ halvings' = next_halvings(halvings)
            /\ UNCHANGED <<err, attempt>>
       ELSE /\ pc' = "attempt"
            /\ attempt' = 0
            /\ UNCHANGED <<err, halvings>>
    /\ UNCHANGED <<nodeset, inlut, nilut, edgeset, call, missing, issued, gen_nodes,
                   required_edges, prohibited_edges, max_attempts, adjmat, dagVars>>

\* the head of _randomize: net.clear(), n_nodes, density (1.0 / 0 raises); a
\* range(max_attempts) that is empty goes straight to the recursive call
randomize_enter ==
    /\ pc = "enter"
    /\ edgeset' = {}
    /\ call' = [op |-> "clear"]
    /\ IF Cardinality(nodeset) = 0
       THEN /\ pc' = "raised"
            /\ err' = "ZeroDivisionError"
            /\ UNCHANGED <<halvings, attempt>>
       ELSE IF max_attempts <= 0
       THEN /\ pc' = "enter"
            /\ halvings' = next_halvings(halvings)
            /\ UNCHANGED <<err, attempt>>
       ELSE /\ pc' = "attempt"
            /\ attempt' = 0
            /\ UNCHANGED <<err, halvings>>
    /\ UNCHANGED <<nodeset, inlut, nilut, missing, issued, gen_nodes,
                   required_edges, prohibited_edges, max_attempts, adjmat, dagVars>>

\* one pass of the loop body: draw, force, add_edges_from(adjmat), is_acyclic;
\* the last failed attempt makes the recursive call with half the density
randomize_attempt(draw) ==
    LET n == Cardinality(nodeset)
        m == force_edges(n, draw)
    IN
    /\ pc = "attempt"
    /\ draw \in Draws(n, halvings)
    /\ adjmat' = m
    /\ call' = [op |-> "add_edges_from_adjmat"]
    /\ add_edges_list(adjmat_to_edges(inlut, n, m))
    /\ IF is_acyclic(nodeset, edgeset')
       THEN /\ pc' = "returned"
            /\ UNCHANGED <<attempt, halvings>>
       ELSE IF attempt + 1 < max_attempts
       THEN /\ pc' = "attempt"
            /\ attempt' = attempt + 1
            /\ UNCHANGED halvings
       ELSE /\ pc' = "enter"
            /\ halvings' = next_halvings(halvings)
            /\ UNCHANGED attempt
    /\ UNCHANGED <<nodeset, inlut, nilut, issued, gen_nodes,
                   required_edges, prohibited_edges, max_attempts, dagVars>>

\* net = Network(nodes), about to call _randomize(net)
RNInit ==
    \E nodes \in DistinctLists :
      \E req \in SUBSET (Range(nodes) \X Range(nodes)) :
        \E pro \in SUBSET (Range(nodes) \X Range(nodes)) :
          \E ma \in 0..MaxAttempts :
            /\ nodeset = Range(nodes)
            /\ inlut = enumerate_lut(nodes, 0)
            /\ nilut \in invert_lut(inlut)
            /\ edgeset = {}
            /\ call = [op |-> "init"]
            /\ err = "none"
            /\ missing = ""
            /\ issued = IdsOf(nodes, 0)
            /\ pc = "enter"
            /\ gen_nodes = nodes
            /\ required_edges = req
            /\ prohibited_edges = pro
            /\ max_attempts = ma
            /\ halvings = 0
            /\ attempt = 0
            /\ adjmat = {}
            /\ white_edges = <<>>
            /\ pairk = 0
            /\ CptIdle

RNNext ==
    \/ randomize_enter /\ UNCHANGED cptVars
    \/ \E draw \in SUBSET Cells(Cardinality(NodeNames)) :
          randomize_attempt(draw) /\ UNCHANGED cptVars

SpecRN == RNInit /\ [][RNNext]_vars

\* The random source is fair: the first attempt of a call of _randomize draws
\* the all-zero matrix with positive probability at every density below 1, so
\* a run that makes such first attempts again and again draws it at one of them.
first_attempt_edgeless ==
    attempt = 0 /\ randomize_attempt({}) /\ UNCHANGED cptVars

FairSpecRN ==
    /\ RNInit
    /\ [][RNNext]_vars
    /\ WF_vars(RNNext)
    /\ SF_vars(first_attempt_edgeless)

(***************************************************************************)
(* randomDAG(nodes, white_edges, black_edges, prob): shuffle the node list *)
(* in place, build Network(nodes, white_edges), then walk                  *)
(* itertools.combinations(nodes, 2) and add each pair as an edge when      *)
(* randn() < prob (the draw can fall either way for every prob).           *)
(***************************************************************************)
Shuffles(l) ==
    {q \in [DOMAIN l -> Range(l)] : \A n \in Range(l) : \E i \in DOMAIN l : q[i] = n}

\* itertools.combinations(l, 2): positions i < j, in lexicographic order
combinations2(l) ==
    LET n == Len(l)
        keys == {c[1] * (n + 1) + c[2] :
                    c \in {d \in (1..n) \X (1..n) : d[1] < d[2]}}
        ord == [k \in 1..Cardinality(keys) |->
                   CHOOSE x \in keys : Cardinality({y \in keys : y < x}) = k - 1]
    IN [k \in DOMAIN ord |-> <<l[ord[k] \div (n + 1)], l[ord[k] % (n + 1)]>>]

\* N.random.shuffle(nodes)
dag_shuffle(q) ==
    /\ pc = "shuffle"
    /\ q \in Shuffles(gen_nodes)
    /\ gen_nodes' = q
    /\ pc' = "construct"
    /\ UNCHANGED <<netVars, required_edges, prohibited_edges, max_attempts,
                   halvings, attempt, adjmat, dagVars>>

\* net = Network(nodes, white_edges): add_nodes_from(nodes) on empty tables,
\* then add_edges_from(white_edges), whose NodeException ends randomDAG
dag_construct ==
    /\ pc = "construct"
    /\ nodeset' = Range(gen_nodes)
    /\ inlut' = enumerate_lut(gen_nodes, 0)
    /\ nilut' \in invert_lut(inlut')
    /\ issued' = IdsOf(gen_nodes, 0)
    /\ call' = [op |-> "init"]
    /\ LET b == first_bad(nodeset', white_edges) IN
       /\ edgeset' = edges_applied(nodeset', white_edges)
       /\ err' = IF b = 0 THEN "none" ELSE "NodeException"
       /\ missing' = IF b = 0 THEN ""
                     ELSE edge_missing(nodeset', white_edges[b][1], white_edges[b][2])
       /\ pc' = IF b # 0 THEN "raised"
                ELSE IF Len(combinations2(gen_nodes)) = 0 THEN "returned"
                ELSE "pairs"
    /\ pairk' = 1
    /\ UNCHANGED <<gen_nodes, required_edges, prohibited_edges, max_attempts,
                   halvings, attempt, adjmat, white_edges>>

\* one pass of the loop over the combinations; take is randn() < prob
dag_pair(take) ==
    LET combs == combinations2(gen_nodes)
        e == combs[pairk]
    IN
    /\ pc = "pairs"
    /\ IF take
       THEN /\ call' = [op |-> "add_edge", u |-> e[1], v |-> e[2]]
            /\ add_edges_list(<<e>>)
       ELSE UNCHANGED <<call, edgeset, err, missing>>
    /\ pairk' = pairk + 1
    /\ pc' = IF pairk = Len(combs) THEN "returned" ELSE "pairs"
    /\ UNCHANGED <<nodeset, inlut, nilut, issued, gen_nodes, required_edges,
                   prohibited_edges, max_attempts, halvings, attempt, adjmat,
                   white_edges>>

DAGInit ==
    \E nodes \in DistinctLists :
      \E white \in EdgeLists :
        /\ nodeset = {}
        /\ inlut = EmptyFun
        /\ nilut = EmptyFun
        /\ edgeset = {}
        /\ call = [op |-> "none"]
        /\ err = "none"
        /\ missing = ""
        /\ issued = <<>>
        /\ pc = "shuffle"
        /\ gen_nodes = nodes
        /\ required_edges = {}
        /\ prohibited_edges = {}
        /\ max_attempts = 0
        /\ halvings = 0
        /\ attempt = 0
        /\ adjmat = {}
        /\ white_edges = white
        /\ pairk = 0
        /\ CptIdle

DAGNext ==
    \/ \E q \in SeqsUpTo(NodeNames, Cardinality(NodeNames)) :
          dag_shuffle(q) /\ UNCHANGED cptVars
    \/ dag_construct /\ UNCHANGED cptVars
    \/ \E take \in BOOLEAN : dag_pair(take) /\ UNCHANGED cptVars

SpecDAG == DAGInit /\ [][DAGNext]_vars

(***************************************************************************)
(* cpt(net, data, nodes) of src/cpt.py, Network.cpt and Network.jointprob. *)
(*                                                                         *)
(* An observation matrix is a sequence of rows; a row is a sequence whose  *)
(* position id + 1 holds the state index of the node with that id.         *)
(***************************************************************************)
\* the cardinalities a node's 'nstates' is drawn from
StateCounts == {1, 2}

\* predd[n].keys(): the parents of n, in the order the dict iterates them
parent_list(n) ==
    LET ps == {m \in nodeset : <<m, n>> \in edgeset}
    IN CHOOSE q \in [1..Cardinality(ps) -> ps] : \A m \in ps : \E i \in DOMAIN q : q[i] = m

\* in_edges = predd[n].keys(); in_edges.append(n)
in_edges(n) == Append(parent_list(n), n)

\* the shape of N.zeros([net.node[x]['nstates'] for x in in_edges])
cpt_shape(n) == [i \in DOMAIN in_edges(n) |-> nstates[in_edges(n)[i]]]

\* N.ndindex(shape): every index tuple of an array of that shape
ndindex(shape) ==
    {st \in [DOMAIN shape -> 0..1] : \A i \in DOMAIN shape : st[i] < shape[i]}

\* in_edges_id = [nlut[x] for x in in_edges]
in_edges_id(n) == [i \in DOMAIN in_edges(n) |-> nilut[in_edges(n)[i]]]

\* matches = data[:, in_edges_id] == state
matches(data, ids, state) ==
    [r \in DOMAIN data |-> [i \in DOMAIN ids |-> data[r][ids[i] + 1] = state[i]]]

\* m[:, :k].all(axis=1)
all_axis1(m, k) == [r \in DOMAIN m |-> \A i \in 1..k : m[r][i]]

\* N.sum of a boolean vector
RECURSIVE nsum(_)
nsum(bs) == IF bs = <<>> THEN 0
            ELSE (IF bs[1] THEN 1 ELSE 0) + nsum(Tail(bs))

\* the entry written when only cells without any match get the floor
cpt_entry_both_zero(z, y) == IF y = 0 /\ z = 0 THEN Tiny ELSE Frac(z, y)

\* cpt[state] = tiny if y == 0 or z == 0 else float(z)/y
cpt_entry(z, y) == IF y = 0 \/ z = 0 THEN Tiny ELSE Frac(z, y)

\* the table cpt() builds for node n from data
estimate_table(n, data) ==
    LET ids == in_edges_id(n) IN
    [st \in ndindex(cpt_shape(n)) |->
        LET m == matches(data, ids, st)
            z == nsum(all_axis1(m, Len(ids)))
            y == nsum(all_axis1(m, Len(ids) - 1))
        IN cpt_entry(z, y)]

\* frequency counts as an external counter leaves them: numer and denom are
\* parallel arrays over the joint (parents, self) states
count_numer(n, data) ==
    LET ids == in_edges_id(n) IN
    [st \in ndindex(cpt_shape(n)) |->
        nsum(all_axis1(matches(data, ids, st), Len(ids)))]

count_denom(n, data) ==
    LET ids == in_edges_id(n) IN
    [st \in ndindex(cpt_shape(n)) |->
        nsum(all_axis1(matches(data, ids, st), Len(ids) - 1))]

\* nodedict: every node when nodes is None, else the nodes listed
nodedict(arg) == IF arg.none THEN nodeset ELSE nodeset \cap arg.nodes

\* cpt(net, data, nodes): d['cpt'] = cpt for every node of nodedict; the other
\* keys of d are left as they are
cpt_estimate(data, arg) ==
    /\ pc = "ready"
    /\ node_attr' = [n \in DOMAIN node_attr |->
                        IF n \in nodedict(arg)
                        THEN [node_attr[n] EXCEPT !.keys = @ \cup {"cpt"},
                                                 !.cpt = estimate_table(n, data)]
                        ELSE node_attr[n]]
    /\ estimated' = nodedict(arg)
    /\ call' = [op |-> "cpt", data |-> data]
    /\ pc' = "estimated"
    /\ UNCHANGED <<nodeset, inlut, nilut, edgeset, err, missing, issued,
                   gen_nodes, required_edges, prohibited_edges, max_attempts,
                   halvings, attempt, adjmat, dagVars, nstates, qres, jpres>>

Raise(kind) == [kind |-> kind, val |-> Zero]

Value(v) == [kind |-> "value", val |-> v]

\* Network.cpt(node, state) for a node given by its key: the frequency counts
\* when both 'numer' and 'denom' are there, else the 'cpt' table
net_cpt(node, st) ==
    IF node \notin DOMAIN node_attr THEN Raise("StandardError")
    ELSE LET a == node_attr[node] IN
         IF "numer" \notin a.keys \/ "denom" \notin a.keys
         THEN IF "cpt" \notin a.keys THEN Raise("StandardError")
              ELSE IF st \notin DOMAIN a.cpt THEN Raise("IndexError")
              ELSE Value(a.cpt[st])
         ELSE IF st \notin DOMAIN a.numer \/ st \notin DOMAIN a.denom
              THEN Raise("IndexError")
              ELSE IF a.denom[st] = 0 THEN Value(Zero)
              ELSE Value(Frac(a.numer[st], a.denom[st]))

\* a call of Network.cpt
cpt_query(node, st) ==
    /\ pc \in {"ready", "estimated"}
    /\ qres' = net_cpt(node, st)
    /\ call' = [op |-> "cpt_query", node |-> node, state |-> st]
    /\ pc' = "answered"
    /\ UNCHANGED <<nodeset, inlut, nilut, edgeset, err, missing, issued,
                   gen_nodes, required_edges, prohibited_edges, max_attempts,
                   halvings, attempt, adjmat, dagVars, nstates, node_attr,
                   estimated, jpres>>

\* cptprob != 0.
is_zero(p) == p[1] = "frac" /\ p[2] = 0

\* the cell when a zero probability leaves no factor behind
prob_cell_one(cptprob) == IF ~ is_zero(cptprob) THEN cptprob ELSE Frac(1, 1)

\* probs[index] = cptprob if cptprob != 0. else probs[index], on a cell that
\* probs.fill(N.finfo(float).tiny) has set
prob_cell(cptprob) == IF ~ is_zero(cptprob) THEN cptprob ELSE Tiny

\* cptstate = tuple([states[index[0], p] for p in var_pred_ind]), with
\* var_pred = _node[var]['cptdim']; a node that carries 'cptdim' carries the
\* dimension order of its table, its parents and then itself
cptstate(row, var) ==
    [i \in DOMAIN in_edges_id(var) |-> row[in_edges_id(var)[i] + 1]]

\* the query of the cell in column col (0-based) of a row
cell_query(row, col) ==
    IF "cptdim" \notin node_attr[inlut[col]].keys THEN Raise("KeyError")
    ELSE net_cpt(inlut[col], cptstate(row, inlut[col]))

\* N.sum(N.log(probs), axis=1) of one row: the log of the product of its
\* cells, kept as the product's terms and the number of tiny factors
RECURSIVE log_sum(_)
log_sum(ps) ==
    IF ps = <<>> THEN [num |-> 1, den |-> 1, tinies |-> 0]
    ELSE LET rest == log_sum(Tail(ps)) IN
         IF ps[1][1] = "tiny"
         THEN [rest EXCEPT !.tinies = @ + 1]
         ELSE [rest EXCEPT !.num = @ * ps[1][2], !.den = @ * ps[1][3]]

\* the cells of the state matrix in N.ndindex order (row-major), as r * n + c
joint_raising(states, n) ==
    {r * n + c : r \in DOMAIN states, c \in 0..(n - 1)} \cap
    {x \in 0..((Len(states) + 1) * n) :
        x \div n \in DOMAIN states
        /\ cell_query(states[x \div n], x % n).kind # "value"}

\* Network.jointprob(states): an exception of a query leaves the call
net_jointprob(states) ==
    LET n == Len(states[1])
        bad == joint_raising(states, n)
    IN IF bad # {}
       THEN LET x == CHOOSE y \in bad : \A w \in bad : y <= w
            IN [kind |-> cell_query(states[x \div n], x % n).kind, rows |-> <<>>]
       ELSE [kind |-> "value",
             rows |-> [r \in DOMAIN states |->
                        [state |-> states[r],
                         logp |-> log_sum([c \in 1..n |->
                                     prob_cell(cell_query(states[r], c - 1).val)])]]]

\* a call of Network.jointprob
jointprob(states) ==
    /\ pc \in {"ready", "estimated"}
    /\ jpres' = net_jointprob(states)
    /\ call' = [op |-> "jointprob", states |-> states]
    /\ pc' = "answered"
    /\ UNCHANGED <<nodeset, inlut, nilut, edgeset, err, missing, issued,
                   gen_nodes, required_edges, prohibited_edges, max_attempts,
                   halvings, attempt, adjmat, dagVars, nstates, node_attr,
                   estimated, qres>>

\* the rows over the nodes of lut, each cell below its node's nstates + over
RowsOver(lut, nst, over) ==
    {row \in [1..Cardinality(DOMAIN lut) -> 0..2] :
        \A c \in DOMAIN row : row[c] < nst[lut[c - 1]] + over}

Datasets(lut, nst, lo, hi, over) ==
    UNION {[1..k -> RowsOver(lut, nst, over)] : k \in lo..hi}

\* the edge sets without a directed cycle
DagEdgeSets == {es \in SUBSET Pairs : is_acyclic(NodeNames, es)}

NoAttr == [keys |-> {}, cpt |-> EmptyFun, numer |-> EmptyFun, denom |-> EmptyFun]

\* the 'cptdim' key of a node of dims
cptdim_key(n, dims) == IF n \in dims THEN {"cptdim"} ELSE {}

\* A network over all the nodes with an acyclic edge set, 'nstates' on every
\* node, 'cptdim' on the nodes of one set of dimsets, and on each node either
\* nothing, a table estimated earlier or frequency counts, both taken from an
\* earlier sample of at most maxrows rows.
CptStart(maxrows, dimsets) ==
    \E nodes \in {l \in DistinctLists : Range(l) = NodeNames} :
      \E es \in DagEdgeSets :
        \E nst \in [NodeNames -> StateCounts] :
          \E prior \in [NodeNames -> {"none", "table", "counts"}], dims \in dimsets :
            /\ nodeset = Range(nodes)
            /\ inlut = enumerate_lut(nodes, 0)
            /\ nilut \in invert_lut(inlut)
            /\ edgeset = es
            /\ call = [op |-> "init"]
            /\ err = "none"
            /\ missing = ""
            /\ issued = IdsOf(nodes, 0)
            /\ pc = "ready"
            /\ gen_nodes = nodes
            /\ required_edges = {}
            /\ prohibited_edges = {}
            /\ max_attempts = 0
            /\ halvings = 0
            /\ attempt = 0
            /\ adjmat = {}
            /\ white_edges = <<>>
            /\ pairk = 0
            /\ nstates = nst
            /\ \E sample \in Datasets(inlut, nst, 0, maxrows, 0) :
                 node_attr = [n \in NodeNames |->
                    CASE prior[n] = "none" -> [NoAttr EXCEPT !.keys = cptdim_key(n, dims)]
                      [] prior[n] = "table" ->
                            [NoAttr EXCEPT !.keys = {"cpt"} \cup cptdim_key(n, dims),
                                           !.cpt = estimate_table(n, sample)]
                      [] prior[n] = "counts" ->
                            [NoAttr EXCEPT !.keys = {"numer", "denom"} \cup cptdim_key(n, dims),
                                           !.numer = count_numer(n, sample),
                                           !.denom = count_denom(n, sample)]]
            /\ estimated = {}
            /\ qres = NoResult
            /\ jpres = NoJoint

\* the arguments cpt() is given for nodes: None, or a list of nodes
NodesArgs ==
    {[none |-> TRUE, nodes |-> {}]} \cup
    {[none |-> FALSE, nodes |-> ns] : ns \in SUBSET NodeNames}

\* the state tuples Network.cpt is asked about, in and out of a table's range
QueryStates(node) ==
    {st \in SeqsUpTo(0..2, Cardinality(NodeNames)) : Len(st) = Len(in_edges(node))}

\* Estimation and point queries, which never read 'cptdim': no node carries
\* it, and the earlier sample has at most one row.
CPTInit == CptStart(1, {{}})

CPTNext ==
    \/ \E data \in Datasets(inlut, nstates, 0, MaxRows, 0) :
          \E arg \in NodesArgs : cpt_estimate(data, arg)
    \/ \E node \in NodeNames : \E st \in QueryStates(node) : cpt_query(node, st)

SpecCPT == CPTInit /\ [][CPTNext]_vars

\* Joint probabilities: every node's parameters come from a sample of up to
\* MaxRows rows, any of the nodes carry 'cptdim', and the state matrix may
\* hold an index one past a node's states.
JPInit == CptStart(MaxRows, SUBSET NodeNames)

JPNext ==
    \/ \E states \in Datasets(inlut, nstates, 1, MaxJointRows, 1) : jointprob(states)
    \/ \E node \in NodeNames : \E st \in QueryStates(node) : cpt_query(node, st)

SpecJP == JPInit /\ [][JPNext]_vars

(***************************************************************************)
(* Claims about the Network registry and its edge set (specification Spec).*)
(***************************************************************************)
\* C1: after any sequence of registrations the two lookup tables are mutual
\* inverses: every id i that has been handed out is a key of inlut and
\* nilut[inlut[i]] = i.
C1_Bijection ==
    \A i \in Range(issued) :
        /\ i \in DOMAIN inlut
        /\ inlut[i] \in DOMAIN nilut
        /\ nilut[inlut[i]] = i

\* C2: every id handed out is strictly greater than every id handed out
\* before it on the same network, so no id is handed out twice.
C2_IdsIncrease ==
    \A k \in DOMAIN issued : \A l \in DOMAIN issued :
        k < l => issued[k] < issued[l]

\* C3: add_edge(u, v) with u or v outside the network's node set raises
\* NodeException and leaves the edge set as it was; with both endpoints in
\* the node set it raises nothing and the edge set gains exactly (u, v).
C3_AddEdgeStep ==
    call'.op = "add_edge" =>
        IF call'.u \in nodeset /\ call'.v \in nodeset
        THEN /\ err' = "none"
             /\ edgeset' = edgeset \cup {<<call'.u, call'.v>>}
        ELSE /\ err' = "NodeException"
             /\ missing' \in {call'.u, call'.v} \ nodeset
             /\ edgeset' = edgeset

C3_AddEdgeValidated == [][C3_AddEdgeStep]_vars

\* C3 witness: an add_edge with an unregistered endpoint has been refused on
\* a network that already holds an edge.
C3_Witness ==
    /\ call.op = "add_edge"
    /\ err = "NodeException"
    /\ call.u \in nodeset
    /\ call.v \notin nodeset
    /\ edgeset # {}

\* C4: add_edges_from is all-or-nothing: a call that fails leaves the edge
\* set exactly as it was before the call.
C4_AllOrNothing ==
    [][(call'.op \in {"add_edges_from", "add_edges_from_adjmat"} /\ err' # "none")
          => edgeset' = edgeset]_vars

(***************************************************************************)
(* Claims about random_network (specifications SpecRN and FairSpecRN).     *)
(***************************************************************************)
\* a directed cycle: a closed walk over at most all the nodes
Cyclic(ns, es) ==
    \E p \in SeqsUpTo(ns, Cardinality(ns)) :
        /\ Len(p) >= 1
        /\ \A i \in 1..(Len(p) - 1) : <<p[i], p[i + 1]>> \in es
        /\ <<p[Len(p)], p[1]>> \in es

SelfLoops(ns) == {<<n, n>> : n \in ns}

\* C5 as stated: the returned network is acyclic, holds every required edge,
\* holds no prohibited edge and has no self-loop.
C5_AllRequired ==
    pc = "returned" =>
        /\ ~ Cyclic(nodeset, edgeset)
        /\ required_edges \subseteq edgeset
        /\ edgeset \cap prohibited_edges = {}
        /\ edgeset \cap SelfLoops(nodeset) = {}

\* C5 as amended: the returned network is acyclic, holds every required edge
\* that is neither prohibited nor a self-loop, holds no prohibited edge and
\* has no self-loop.
C5_RequiredUnlessExcluded ==
    pc = "returned" =>
        /\ ~ Cyclic(nodeset, edgeset)
        /\ ((required_edges \ prohibited_edges) \ SelfLoops(nodeset))
               \subseteq edgeset
        /\ edgeset \cap prohibited_edges = {}
        /\ edgeset \cap SelfLoops(nodeset) = {}

\* C5 witness: a network returned after a failed attempt, with required and
\* prohibited edges given and an edge in it that was not required.
C5_Witness ==
    /\ pc = "returned"
    /\ halvings >= 1
    /\ required_edges # {}
    /\ prohibited_edges # {}
    /\ edgeset \ required_edges # {}

\* the inputs on which some matrix passes the acyclicity test
Solvable ==
    /\ nodeset # {}
    /\ max_attempts >= 1
    /\ ~ Cyclic(nodeset, (required_edges \ prohibited_edges) \ SelfLoops(nodeset))

\* C10 as stated: random_network eventually returns a network, whatever the
\* nodes, the two edge lists and max_attempts.
C10_AlwaysReturns == <>(pc = "returned")

\* C10 as amended: under a fair random draw random_network eventually returns
\* a network when there is a node, max_attempts is at least 1 and the required
\* edges that are neither prohibited nor self-loops form no cycle.
C10_ReturnsWhenSolvable == Solvable => <>(pc = "returned")

\* C10 witness: a network returned after every attempt at the first density
\* failed and the density was halved.
C10_Witness ==
    /\ pc = "returned"
    /\ halvings >= 1
    /\ max_attempts = MaxAttempts
    /\ required_edges # {}

(***************************************************************************)
(* Claims about randomDAG (specification SpecDAG).                         *)
(***************************************************************************)
\* C6: every network randomDAG returns is acyclic, whatever the node list,
\* the white edges over those nodes, the shuffle and the per-pair draws.
C6_Acyclic == pc = "returned" => ~ Cyclic(nodeset, edgeset)

(***************************************************************************)
(* Claims about cpt() and Network.cpt (SpecCPT) and about                  *)
(* Network.jointprob (SpecJP).                                             *)
(***************************************************************************)
\* C7: once cpt() has estimated a node, the node's parameters are the new
\* table and nothing else, and a following Network.cpt(node, state) returns
\* the table's entry for that state, whatever the node held before.
C7_QueryReturnsNewTable ==
    (/\ call.op = "cpt_query"
     /\ call.node \in estimated
     /\ call.state \in DOMAIN node_attr[call.node].cpt)
    => /\ node_attr[call.node].keys \cap {"cpt", "numer", "denom"} = {"cpt"}
       /\ qres = Value(node_attr[call.node].cpt[call.state])

\* the joint assignments over (parents of n, n)
JointStates(n) ==
    LET dims == in_edges(n) IN
    {st \in SeqsUpTo(0..1, Len(dims)) :
        Len(st) = Len(dims) /\ \A i \in DOMAIN st : st[i] + 1 <= nstates[dims[i]]}

\* the rows of data whose columns of the first k nodes of in_edges(n) equal st
RowsAgreeing(data, n, st, k) ==
    {r \in DOMAIN data :
        \A i \in 1..k : data[r][nilut[in_edges(n)[i]] + 1] = st[i]}

\* C8: for every node n that cpt() estimated and every joint assignment st
\* over (parents of n, n), with z the number of data rows that agree with st
\* on all these columns and y the number that agree on the parent columns,
\* the stored entry is z/y when y > 0 and z > 0 and the floor otherwise; so an
\* entry is the floor or a fraction with 1 <= z <= y, never 0; a node without
\* parents has y = number of rows.
C8_TableEntries ==
    pc = "estimated" =>
        \A n \in estimated :
            /\ "cpt" \in node_attr[n].keys
            /\ DOMAIN node_attr[n].cpt = JointStates(n)
            /\ \A st \in JointStates(n) :
                 LET k == Len(in_edges(n))
                     z == Cardinality(RowsAgreeing(call.data, n, st, k))
                     y == Cardinality(RowsAgreeing(call.data, n, st, k - 1))
                     entry == node_attr[n].cpt[st]
                 IN /\ entry = IF y > 0 /\ z > 0 THEN Frac(z, y) ELSE Tiny
                    /\ \/ entry = Tiny
                       \/ (entry[1] = "frac" /\ 1 <= entry[2] /\ entry[2] <= entry[3])
                    /\ k = 1 => y = Len(call.data)

\* C8 witness: a node with a parent has been estimated from two rows, and
\* its table holds a fraction, the floor for a state never seen under a
\* parent state that was seen (z = 0 < y), and the floor for a parent state
\* that was never seen (y = 0).
C8_Witness ==
    /\ pc = "estimated"
    /\ Len(call.data) = 2
    /\ \E n \in estimated :
         /\ Len(in_edges(n)) = 2
         /\ \E st \in DOMAIN node_attr[n].cpt : node_attr[n].cpt[st][1] = "frac"
         /\ \E st \in DOMAIN node_attr[n].cpt :
               /\ node_attr[n].cpt[st] = Tiny
               /\ RowsAgreeing(call.data, n, st, 1) # {}
         /\ \E st \in DOMAIN node_attr[n].cpt :
               /\ node_attr[n].cpt[st] = Tiny
               /\ RowsAgreeing(call.data, n, st, 1) = {}

\* the sum of logs over the columns of cs: the product of the fractions the
\* queries returned, with one tiny factor per query that returned the floor
RECURSIVE LogOver(_, _)
LogOver(row, cs) ==
    IF cs = {} THEN [num |-> 1, den |-> 1, tinies |-> 0]
    ELSE LET c == CHOOSE x \in cs : TRUE
             rest == LogOver(row, cs \ {c})
             p == cell_query(row, c).val
         IN IF p = Tiny THEN [rest EXCEPT !.tinies = @ + 1]
            ELSE [rest EXCEPT !.num = @ * p[2], !.den = @ * p[3]]

\* equal sums of logs: equal products and as many tiny factors
LogEq(a, b) == a.tinies = b.tinies /\ a.num * b.den = b.num * a.den

Columns(row) == 0..(Len(row) - 1)

NonZeroColumns(row) == {c \in Columns(row) : ~ is_zero(cell_query(row, c).val)}

\* C9 as stated: a variable whose query yields 0 changes nothing in the
\* row's log-probability: the row's value is the sum of log(p) over the
\* variables whose query returned a non-zero p.
C9_ZeroAddsNothing ==
    (call.op = "jointprob" /\ jpres.kind = "value") =>
        \A r \in DOMAIN jpres.rows :
            LogEq(jpres.rows[r].logp,
                  LogOver(call.states[r], NonZeroColumns(call.states[r])))

\* C9 as amended: a variable whose query yields 0 contributes log(tiny), the
\* value its cell was filled with: the row's value is the sum of log(p) over
\* the variables whose query returned a non-zero p, plus log(tiny) for each
\* variable whose query returned 0.
C9_ZeroAddsLogTiny ==
    (call.op = "jointprob" /\ jpres.kind = "value") =>
        \A r \in DOMAIN jpres.rows :
            LET row == call.states[r]
                nz == LogOver(row, NonZeroColumns(row))
                zeros == Cardinality(Columns(row) \ NonZeroColumns(row))
            IN /\ jpres.rows[r].state = row
               /\ LogEq(jpres.rows[r].logp, [nz EXCEPT !.tinies = @ + zeros])

\* C9 witness: jointprob has returned for a row in which one variable's
\* query yielded 0 and another's a non-zero probability.
C9_Witness ==
    /\ call.op = "jointprob"
    /\ jpres.kind = "value"
    /\ \E r \in DOMAIN jpres.rows :
         /\ NonZeroColumns(call.states[r]) # {}
         /\ Columns(call.states[r]) \ NonZeroColumns(call.states[r]) # {}

(***************************************************************************)
(* Claims about the attempts of random_network (SpecRN) and about invalid  *)
(* states in Network.jointprob (SpecJP).                                   *)
(***************************************************************************)
\* the edges an adjacency matrix stands for: inlut[row] -> inlut[column]
MatrixEdges(m) == {<<inlut[c[1]], inlut[c[2]]>> : c \in m}

\* C11: at each is_acyclic() test of random_network, that is after each
\* add_edges_from(adjmat) of an attempt, the network's edge set is exactly
\* the set of edges of that attempt's matrix, with no edge left over from an
\* earlier attempt.
C11_FreshGraphPerAttempt ==
    (call.op = "add_edges_from_adjmat" /\ pc \in {"attempt", "enter", "returned"})
        => edgeset = MatrixEdges(adjmat)

\* every node carries 'cptdim' and parameters (a table or both counts), so a
\* query of jointprob can fail on the state it is asked about and on nothing
\* else
FullyParameterised ==
    \A n \in nodeset :
        /\ "cptdim" \in node_attr[n].keys
        /\ \/ "cpt" \in node_attr[n].keys
           \/ {"numer", "denom"} \subseteq node_attr[n].keys

\* C12: on a network whose nodes all carry 'cptdim' and parameters,
\* jointprob returns one output row per input row, each row holding its
\* input state vector, whatever state indices the rows hold: an index outside
\* a variable's table is skipped and never ends the call.
C12_NeverAborts ==
    (call.op = "jointprob" /\ FullyParameterised)
        => /\ jpres.kind = "value"
           /\ Len(jpres.rows) = Len(call.states)
           /\ \A r \in DOMAIN jpres.rows : jpres.rows[r].state = call.states[r]
=============================================================================
